---- MODULE Spec2Model ----
(***************************************************************************)
(* The passthrough-encoding bridge of libwebrtc (EncodedVideoSource,       *)
(* PassthroughEncoderFactory, PassthroughEncoderHandle) as a state         *)
(* machine.  One EncodedVideoSource is constructed, cloned, initialized,   *)
(* pushed to and dropped by its callers; the transport, which is outside   *)
(* the Rust code, creates encoder instances in the factory and raises the  *)
(* keyframe-request flag of an encoder.                                     *)
(*                                                                         *)
(* Two values of the source exist at most, as in rtsp_h264_passthrough:    *)
(* the one the application made ("source") and the clone it gave to the    *)
(* video track ("track").  Each is used by one thread at a time, so the    *)
(* two may be inside a call concurrently.                                  *)
(*                                                                         *)
(* An encoder instance is named by a number 1..MaxEncoders; None (0) is    *)
(* the null pointer / Option::None.  Encoder instances stay addressable    *)
(* once created: the Rust code never frees one.                            *)
(*                                                                         *)
(* The video capturer (VideoCapturer, NativeVideoCapturerStream and the    *)
(* VideoCapturerTrackObserver callback) is a second, independent state     *)
(* machine over its own variables: one capturer is opened, started and     *)
(* stopped, the driver thread calls on_frame on the registered sink, and   *)
(* the consumer polls or drops the streams.  Spec is the encoded source,   *)
(* CaptureSpec the capturer; each leaves the other's variables alone.      *)
(*                                                                         *)
(* Three smaller machines take one part of the encoded source each, again  *)
(* over their own variables.  FrameSpec follows one frame from             *)
(* EncodedVideoFrame::new through push_frame to the arguments of the       *)
(* inject call, field by field.  DiscoverySpec runs initialize_encoder and *)
(* initialize_encoder_async against the same answers of the factory.       *)
(* LockSpec follows the locks: a producer inside push_frame or a keyframe  *)
(* operation, a thread inside initialize_encoder and the transport's       *)
(* feedback path, one step per acquisition, access and release.            *)
(* CloneSpec follows the Arc of the handle cell through clone(): which     *)
(* cell each value of the source points to and what each cell holds.       *)
(***************************************************************************)
EXTENDS Integers, Sequences, FiniteSets, TLC

\* ---- bounds of the model ----
MaxEncoders == 2
MaxFrames == 2

MaxStreams == 2
MaxCaptured == 3

\* ---- program constants ----
DefaultAttempts == 50

None == 0

VideoCodecType == {"H264", "VP8", "VP9", "AV1"}
Resolutions == {<<0, 0>>, <<1920, 1080>>}
Budgets == {1, DefaultAttempts}
\* an empty delta frame and a keyframe that carries data
Frames ==
    {[data |-> <<>>, is_keyframe |-> FALSE], [data |-> <<103>>, is_keyframe |-> TRUE]}
Codes == {0, -1}

Clones == {"source", "track"}
Encoders == 1..MaxEncoders

Devices == {"cam0", "unplugged"}
Capabilities == {<<640, 480, 30>>, <<1280, 720, 30>>}
Status == {0, -1}
Streams == 1..MaxStreams
\* the channel of a stream just registered: sink is who holds the
\* NativeVideoSink whose observer owns frame_tx, the only sender
NoChannel == [queue |-> <<>>, closed |-> FALSE, sink |-> {"stream", "driver"}]

NoFrame == [data |-> <<>>, is_keyframe |-> FALSE]
NoCall ==
    [max_attempts |-> 0, i |-> 0, probes |-> 0, sleeps |-> 0, encoder |-> None,
     waited |-> FALSE, frame |-> NoFrame, id |-> 0, after_drop |-> FALSE,
     handle |-> None, called |-> FALSE, error |-> "none", code |-> 0, value |-> FALSE]
NoSource == [constructed |-> FALSE, codec |-> "none"]

VARIABLES
    source,             \* the EncodedVideoSource value: constructed or not, its codec
    new_result,         \* the last EncodedVideoSource::new: its codec, Some or None
    factories,          \* PassthroughEncoderFactory instances created
    live,               \* the values of the source not yet dropped
    dropped,            \* the values of the source that were dropped
    factory_encoder,    \* the factory's last created encoder, None when null
    encoder_handle,     \* the shared Mutex<Option<PassthroughEncoderHandle>>
    keyframe_requested, \* the keyframe-request flag of each encoder instance
    injected,           \* the calls made to passthrough_encoder_inject_frame
    pc,                 \* where each caller is inside its current call
    call,               \* the locals of each caller's current call
    pushes,             \* push_frame calls made so far (they are numbered 1..pushes)
    returned,           \* the push_frame calls that have returned
    expected,           \* the push_frame calls that found a handle and carried data
    requests,           \* request_keyframe calls on the bound encoder made in a row just now
    timed_out,          \* an initialize_encoder call returned false with no handle bound,
                        \* and no call has returned true since
    cleared,            \* the encoder whose flag clear_keyframe_request has just cleared,
                        \* None once anything but a bind or a flag read has happened
    capture_state,      \* the capture session: Closed, Opened, Capturing, Stopped
    registered,         \* the stream whose sink the driver calls, None when deregistered
    streams,            \* NativeVideoCapturerStream values created (numbered 1..streams)
    frame_rx,           \* the channel of each stream created: its queue, whether it is closed
    polled,             \* the last poll_next: its stream and what it returned
    yielded,            \* the frames poll_next has returned, per stream
    delivered,          \* the frames the driver passed to on_frame, per stream
    captured,           \* frames the driver has produced so far
    on_frame_result,    \* the last on_frame call: what send returned, how the call ended
    capture_result,     \* the last open_device / start / stop call and whether it succeeded
    encoded_frame,      \* the EncodedVideoFrame a producer holds, <<>> before it is built
    boundary,           \* the arguments its push_frame passed to the encoder, <<>> when none
    push_result,        \* what that push_frame returned, <<>> before it is called
    discovery,          \* one discovery run by both variants against the same factory
                        \* responses, <<>> before it is made
    lock_state,         \* the mutex of one source, the encoder's own lock and the
                        \* threads at them: <<>> before the source is constructed
    clone_state         \* the handle cells that exist and the cell each value of a
                        \* source points to: <<>> before the source is constructed

encoded_vars ==
    <<source, new_result, factories, live, dropped, factory_encoder, encoder_handle,
      keyframe_requested, injected, pc, call, pushes, returned, expected,
      requests, timed_out, cleared>>

capture_vars ==
    <<capture_state, registered, streams, frame_rx, polled, yielded, delivered, captured,
      on_frame_result, capture_result>>

frame_vars == <<encoded_frame, boundary, push_result>>

discovery_vars == <<discovery>>

lock_vars == <<lock_state>>

clone_vars == <<clone_state>>

\* what an operation of one machine leaves alone: the variables of the others
outside_encoded == <<capture_vars, frame_vars, discovery_vars, lock_vars, clone_vars>>
outside_capture == <<encoded_vars, frame_vars, discovery_vars, lock_vars, clone_vars>>
outside_frame == <<encoded_vars, capture_vars, discovery_vars, lock_vars, clone_vars>>
outside_discovery == <<encoded_vars, capture_vars, frame_vars, lock_vars, clone_vars>>
outside_lock == <<encoded_vars, capture_vars, frame_vars, discovery_vars, clone_vars>>
outside_clone == <<encoded_vars, capture_vars, frame_vars, discovery_vars, lock_vars>>

vars == <<encoded_vars, capture_vars, frame_vars, discovery_vars, lock_vars, clone_vars>>

\* ---- pure functions of the code ----

\* a constructor that also lets VP8 through
SupportedCodecOrVP8(codec) == codec \in {"H264", "VP8"}

SupportedCodec(codec) == codec = "H264"

\* PassthroughEncoderFactory::get_encoder: the last encoder, None for null
get_encoder(ptr) == IF ptr = None THEN None ELSE ptr

\* PassthroughEncodedFrame::new as push_frame calls it: a copy of the fields
PassthroughEncodedFrame(frame) ==
    [data |-> frame.data, is_keyframe |-> frame.is_keyframe]

\* inject_frame without its check for empty data
inject_frame_unvalidated(frame, code) ==
    [called |-> TRUE, error |-> IF code = 0 THEN "Ok" ELSE "EncoderError", code |-> code]

\* PassthroughEncoderHandle::inject_frame: code is what the encoder returns
inject_frame(frame, code) ==
    IF frame.data = <<>>
    THEN [called |-> FALSE, error |-> "InvalidData", code |-> 0]
    ELSE [called |-> TRUE,
          error |-> IF code = 0 THEN "Ok" ELSE "EncoderError",
          code |-> code]

\* push_frame that turns away a frame whose codec field is not H264
push_frame_h264_only(handle, frame, code) ==
    IF handle = None
    THEN [called |-> FALSE, error |-> "NotInitialized", code |-> 0]
    ELSE IF frame.codec # "H264"
         THEN [called |-> FALSE, error |-> "InvalidCodec", code |-> 0]
         ELSE inject_frame(PassthroughEncodedFrame(frame), code)

\* push_frame that does not look at the handle cell
push_frame_unguarded(handle, frame, code) ==
    inject_frame(PassthroughEncodedFrame(frame), code)

\* EncodedVideoSource::push_frame under the handle lock
push_frame(handle, frame, code) ==
    IF handle # None
    THEN inject_frame(PassthroughEncodedFrame(frame), code)
    ELSE [called |-> FALSE, error |-> "NotInitialized", code |-> 0]

\* passthrough_encoder_inject_frame: the frame arrives at the encoder
Deliver(log, entry) == Append(log, entry)

\* a loop that runs one iteration more
LoopDoneInclusive(i) == i > DefaultAttempts

\* a loop that gives up after its first failed probe
LoopDoneAfterOne(i) == i >= 1

\* the for loop of initialize_encoder, for _ in 0..50: i iterations are done
LoopDone(i) == i >= DefaultAttempts

\* a bind that asks the factory again instead of keeping the probe's result
FactoryEncoderAtBind(c) == factory_encoder

\* the encoder a successful probe hands to the handle cell
ProbedEncoder(c) == call[c].encoder

\* PassthroughEncoderHandle::request_keyframe / clear_keyframe_request on the flag
RequestFlag(flag) == TRUE
ClearFlag(flag) == FALSE

Ready == encoder_handle # None

Idle(c) == c \in live /\ pc[c] = "idle"

\* ---- construction, clone, drop ----

Init ==
    /\ source = NoSource
    /\ new_result = [codec |-> "none", some |-> FALSE]
    /\ factories = 0
    /\ live = {}
    /\ dropped = {}
    /\ factory_encoder = None
    /\ encoder_handle = None
    /\ keyframe_requested = [e \in Encoders |-> FALSE]
    /\ injected = <<>>
    /\ pc = [c \in Clones |-> "idle"]
    /\ call = [c \in Clones |-> NoCall]
    /\ pushes = 0
    /\ returned = {}
    /\ expected = {}
    /\ requests = 0
    /\ timed_out = FALSE
    /\ cleared = None
    /\ capture_state = "Closed"
    /\ registered = None
    /\ streams = 0
    /\ frame_rx = <<>>
    /\ polled = [stream |-> None, poll |-> "none"]
    /\ yielded = <<>>
    /\ delivered = <<>>
    /\ captured = 0
    /\ on_frame_result = [send |-> "none", ended |-> "none"]
    /\ capture_result = [op |-> "none", ok |-> FALSE]
    /\ encoded_frame = <<>>
    /\ boundary = <<>>
    /\ push_result = <<>>
    /\ discovery = <<>>
    /\ lock_state = <<>>
    /\ clone_state = <<>>

New(codec, width, height) ==
    /\ ~source.constructed
    /\ IF ~SupportedCodec(codec)
       THEN /\ new_result' = [codec |-> codec, some |-> FALSE]
            /\ UNCHANGED <<source, factories, live>>
       ELSE /\ new_result' = [codec |-> codec, some |-> TRUE]
            /\ source' = [constructed |-> TRUE, codec |-> codec]
            /\ factories' = factories + 1
            /\ live' = {"source"}
    /\ requests' = 0
    /\ cleared' = None
    /\ UNCHANGED <<outside_encoded, dropped, factory_encoder, encoder_handle, keyframe_requested,
                   injected, pc, call, pushes, returned, expected, timed_out>>

Clone(c) ==
    /\ Idle(c)
    /\ \E n \in Clones \ (live \cup dropped) : live' = live \cup {n}
    /\ requests' = 0
    /\ cleared' = None
    /\ UNCHANGED <<outside_encoded, source, new_result, factories, dropped, factory_encoder,
                   encoder_handle, keyframe_requested, injected, pc, call, pushes,
                   returned, expected, timed_out>>

\* a drop that empties the shared handle cell although a clone still lives
DropClearing(c) ==
    /\ Idle(c)
    /\ live' = live \ {c}
    /\ dropped' = dropped \cup {c}
    /\ encoder_handle' = None
    /\ requests' = 0
    /\ cleared' = None
    /\ UNCHANGED <<outside_encoded, source, new_result, factories, factory_encoder, keyframe_requested,
                   injected, pc, call, pushes, returned, expected, timed_out>>

Drop(c) ==
    /\ Idle(c)
    /\ live' = live \ {c}
    /\ dropped' = dropped \cup {c}
    /\ encoder_handle' = IF live = {c} THEN None ELSE encoder_handle
    /\ requests' = 0
    /\ cleared' = None
    /\ UNCHANGED <<outside_encoded, source, new_result, factories, factory_encoder, keyframe_requested,
                   injected, pc, call, pushes, returned, expected, timed_out>>

\* ---- the transport ----

CreateEncoder ==
    /\ source.constructed
    /\ factory_encoder < MaxEncoders
    /\ factory_encoder' = factory_encoder + 1
    /\ requests' = 0
    /\ cleared' = None
    /\ UNCHANGED <<outside_encoded, source, new_result, factories, live, dropped, encoder_handle,
                   keyframe_requested, injected, pc, call, pushes, returned, expected, timed_out>>

TransportRequestKeyframe ==
    /\ factory_encoder # None
    /\ keyframe_requested' = [keyframe_requested EXCEPT ![factory_encoder] = TRUE]
    /\ requests' = 0
    /\ cleared' = None
    /\ UNCHANGED <<outside_encoded, source, new_result, factories, live, dropped, factory_encoder,
                   encoder_handle, injected, pc, call, pushes, returned, expected, timed_out>>

\* ---- initialize_encoder / initialize_encoder_async ----

InitializeEncoder(c) ==
    /\ Idle(c)
    /\ pc' = [pc EXCEPT ![c] = "probe"]
    /\ call' = [call EXCEPT ![c] = NoCall]
    /\ requests' = 0
    /\ cleared' = None
    /\ UNCHANGED <<outside_encoded, source, new_result, factories, live, dropped, factory_encoder,
                   encoder_handle, keyframe_requested, injected, pushes, returned,
                   expected, timed_out>>

\* one iteration of the polling loop: get_encoder(), then either leave the loop
\* with the encoder or sleep 100 ms; the sleep touches nothing shared, so the
\* failed probe and its sleep are one step.  max_attempts is the budget the
\* caller would like: initialize_encoder has no parameter for it and reads it
\* nowhere, so it is drawn only when the call is about to return false.  Once
\* a probe succeeds the counters are dead; the call keeps whether it had slept.
Probe(c) ==
    /\ pc[c] = "probe"
    /\ LET encoder == get_encoder(factory_encoder) IN
        IF encoder # None
        THEN /\ call' = [call EXCEPT ![c] =
                          [NoCall EXCEPT !.encoder = encoder,
                                         !.waited = call[c].sleeps > 0]]
             /\ pc' = [pc EXCEPT ![c] = "bind"]
        ELSE /\ \E max_attempts \in Budgets :
                  call' = [call EXCEPT ![c].probes = @ + 1, ![c].sleeps = @ + 1,
                                       ![c].i = @ + 1,
                                       ![c].max_attempts =
                                           IF LoopDone(call[c].i + 1)
                                           THEN max_attempts ELSE 0]
             /\ pc' = [pc EXCEPT ![c] = IF LoopDone(call[c].i + 1)
                                        THEN "ret_false" ELSE "probe"]
    /\ requests' = 0
    /\ cleared' = None
    /\ UNCHANGED <<outside_encoded, source, new_result, factories, live, dropped, factory_encoder,
                   encoder_handle, keyframe_requested, injected, pushes, returned,
                   expected, timed_out>>

\* the probe found an encoder: store it in the handle cell under the lock
Bind(c) ==
    /\ pc[c] = "bind"
    /\ encoder_handle' = ProbedEncoder(c)
    /\ pc' = [pc EXCEPT ![c] = "ret_true"]
    /\ requests' = 0
    /\ cleared' = cleared
    /\ UNCHANGED <<outside_encoded, source, new_result, factories, live, dropped, factory_encoder,
                   keyframe_requested, injected, call, pushes, returned, expected,
                   timed_out>>

ReturnTrue(c) ==
    /\ pc[c] = "ret_true"
    /\ pc' = [pc EXCEPT ![c] = "idle"]
    /\ call' = [call EXCEPT ![c] = NoCall]
    /\ timed_out' = FALSE
    /\ requests' = 0
    /\ cleared' = None
    /\ UNCHANGED <<outside_encoded, source, new_result, factories, live, dropped, factory_encoder,
                   encoder_handle, keyframe_requested, injected, pushes, returned,
                   expected>>

\* a timeout that stores whatever the factory holds by then
ReturnFalseBinding(c) ==
    /\ pc[c] = "ret_false"
    /\ pc' = [pc EXCEPT ![c] = "idle"]
    /\ call' = [call EXCEPT ![c] = NoCall]
    /\ timed_out' = (timed_out \/ encoder_handle = None)
    /\ encoder_handle' = get_encoder(factory_encoder)
    /\ requests' = 0
    /\ cleared' = None
    /\ UNCHANGED <<outside_encoded, source, new_result, factories, live, dropped, factory_encoder,
                   keyframe_requested, injected, pushes, returned, expected>>

\* a timeout that empties the handle cell
ReturnFalseClearing(c) ==
    /\ pc[c] = "ret_false"
    /\ pc' = [pc EXCEPT ![c] = "idle"]
    /\ call' = [call EXCEPT ![c] = NoCall]
    /\ timed_out' = (timed_out \/ encoder_handle = None)
    /\ encoder_handle' = None
    /\ requests' = 0
    /\ cleared' = None
    /\ UNCHANGED <<outside_encoded, source, new_result, factories, live, dropped, factory_encoder,
                   keyframe_requested, injected, pushes, returned, expected>>

ReturnFalse(c) ==
    /\ pc[c] = "ret_false"
    /\ pc' = [pc EXCEPT ![c] = "idle"]
    /\ call' = [call EXCEPT ![c] = NoCall]
    /\ timed_out' = (timed_out \/ encoder_handle = None)
    /\ requests' = 0
    /\ cleared' = None
    /\ UNCHANGED <<outside_encoded, source, new_result, factories, live, dropped, factory_encoder,
                   encoder_handle, keyframe_requested, injected, pushes, returned,
                   expected>>

\* ---- push_frame ----

PushFrameCall(c, frame) ==
    /\ Idle(c)
    /\ pushes < MaxFrames
    /\ pushes' = pushes + 1
    /\ pc' = [pc EXCEPT ![c] = "push"]
    /\ call' = [call EXCEPT ![c] =
                  [NoCall EXCEPT !.frame = frame, !.id = pushes + 1,
                                 !.after_drop = dropped # {}]]
    /\ requests' = 0
    /\ cleared' = None
    /\ UNCHANGED <<outside_encoded, source, new_result, factories, live, dropped, factory_encoder,
                   encoder_handle, keyframe_requested, injected, returned, expected, timed_out>>

\* push_frame that injects a second time when the encoder rejects the frame
PushFrameRetrying(c) ==
    /\ pc[c] = "push"
    /\ \E code \in Codes :
        LET r == push_frame(encoder_handle, call[c].frame, code)
            entry == [encoder |-> encoder_handle,
                      frame |-> PassthroughEncodedFrame(call[c].frame),
                      id |-> call[c].id]
        IN
        /\ r.called \/ code = 0
        /\ injected' =
              IF r.called
              THEN IF r.code = 0
                   THEN Deliver(injected, entry)
                   ELSE Deliver(Deliver(injected, entry), entry)
              ELSE injected
        /\ call' = [call EXCEPT ![c].handle = encoder_handle, ![c].called = r.called,
                                ![c].error = r.error, ![c].code = r.code]
    /\ expected' = IF encoder_handle # None /\ call[c].frame.data # <<>>
                   THEN expected \cup {call[c].id} ELSE expected
    /\ pc' = [pc EXCEPT ![c] = "push_ret"]
    /\ requests' = 0
    /\ cleared' = None
    /\ UNCHANGED <<outside_encoded, source, new_result, factories, live, dropped, factory_encoder,
                   encoder_handle, keyframe_requested, pushes, returned,
                   timed_out>>

\* push_frame that empties the handle cell when the encoder rejects the frame
PushFrameResetting(c) ==
    /\ pc[c] = "push"
    /\ \E code \in Codes :
        LET r == push_frame(encoder_handle, call[c].frame, code) IN
        /\ r.called \/ code = 0
        /\ injected' =
              IF r.called
              THEN Deliver(injected,
                           [encoder |-> encoder_handle,
                            frame |-> PassthroughEncodedFrame(call[c].frame),
                            id |-> call[c].id])
              ELSE injected
        /\ call' = [call EXCEPT ![c].handle = encoder_handle, ![c].called = r.called,
                                ![c].error = r.error, ![c].code = r.code]
        /\ encoder_handle' = IF r.code # 0 THEN None ELSE encoder_handle
    /\ expected' = IF encoder_handle # None /\ call[c].frame.data # <<>>
                   THEN expected \cup {call[c].id} ELSE expected
    /\ pc' = [pc EXCEPT ![c] = "push_ret"]
    /\ requests' = 0
    /\ cleared' = None
    /\ UNCHANGED <<outside_encoded, source, new_result, factories, live, dropped, factory_encoder,
                   keyframe_requested, pushes, returned, timed_out>>

\* push_frame that asks the factory for its encoder instead of using the handle
PushFrameRequerying(c) ==
    /\ pc[c] = "push"
    /\ \E code \in Codes :
        LET r == push_frame(encoder_handle, call[c].frame, code) IN
        /\ r.called \/ code = 0
        /\ injected' =
              IF r.called
              THEN Deliver(injected,
                           [encoder |-> get_encoder(factory_encoder),
                            frame |-> PassthroughEncodedFrame(call[c].frame),
                            id |-> call[c].id])
              ELSE injected
        /\ call' = [call EXCEPT ![c].handle = encoder_handle, ![c].called = r.called,
                                ![c].error = r.error, ![c].code = r.code]
    /\ expected' = IF encoder_handle # None /\ call[c].frame.data # <<>>
                   THEN expected \cup {call[c].id} ELSE expected
    /\ pc' = [pc EXCEPT ![c] = "push_ret"]
    /\ requests' = 0
    /\ cleared' = None
    /\ UNCHANGED <<outside_encoded, source, new_result, factories, live, dropped, factory_encoder,
                   encoder_handle, keyframe_requested, pushes, returned,
                   timed_out>>

PushFrame(c) ==
    /\ pc[c] = "push"
    /\ \E code \in Codes :
        LET r == push_frame(encoder_handle, call[c].frame, code) IN
        /\ r.called \/ code = 0
        /\ injected' =
              IF r.called
              THEN Deliver(injected,
                           [encoder |-> encoder_handle,
                            frame |-> PassthroughEncodedFrame(call[c].frame),
                            id |-> call[c].id])
              ELSE injected
        /\ call' = [call EXCEPT ![c].handle = encoder_handle, ![c].called = r.called,
                                ![c].error = r.error, ![c].code = r.code]
    /\ expected' = IF encoder_handle # None /\ call[c].frame.data # <<>>
                   THEN expected \cup {call[c].id} ELSE expected
    /\ pc' = [pc EXCEPT ![c] = "push_ret"]
    /\ requests' = 0
    /\ cleared' = None
    /\ UNCHANGED <<outside_encoded, source, new_result, factories, live, dropped, factory_encoder,
                   encoder_handle, keyframe_requested, pushes, returned,
                   timed_out>>

PushFrameReturn(c) ==
    /\ pc[c] = "push_ret"
    /\ returned' = returned \cup {call[c].id}
    /\ pc' = [pc EXCEPT ![c] = "idle"]
    /\ call' = [call EXCEPT ![c] = NoCall]
    /\ requests' = 0
    /\ cleared' = None
    /\ UNCHANGED <<outside_encoded, source, new_result, factories, live, dropped, factory_encoder,
                   encoder_handle, keyframe_requested, injected, pushes, expected, timed_out>>

\* ---- the keyframe-request flag ----

IsKeyframeRequested(c) ==
    /\ Idle(c)
    /\ call' = [call EXCEPT ![c] =
                  [NoCall EXCEPT !.handle = encoder_handle,
                                 !.value = IF encoder_handle # None
                                           THEN keyframe_requested[encoder_handle]
                                           ELSE FALSE]]
    /\ pc' = [pc EXCEPT ![c] = "is_ret"]
    /\ requests' = 0
    /\ cleared' = cleared
    /\ UNCHANGED <<outside_encoded, source, new_result, factories, live, dropped, factory_encoder,
                   encoder_handle, keyframe_requested, injected, pushes, returned,
                   expected, timed_out>>

IsKeyframeRequestedReturn(c) ==
    /\ pc[c] = "is_ret"
    /\ pc' = [pc EXCEPT ![c] = "idle"]
    /\ call' = [call EXCEPT ![c] = NoCall]
    /\ requests' = 0
    /\ cleared' = None
    /\ UNCHANGED <<outside_encoded, source, new_result, factories, live, dropped, factory_encoder,
                   encoder_handle, keyframe_requested, injected, pushes, returned,
                   expected, timed_out>>

\* clear_keyframe_request that does not forward the call to the encoder
ClearKeyframeRequestForgotten(c) ==
    /\ Idle(c)
    /\ UNCHANGED keyframe_requested
    /\ requests' = 0
    /\ cleared' = encoder_handle
    /\ UNCHANGED <<outside_encoded, source, new_result, factories, live, dropped, factory_encoder,
                   encoder_handle, injected, pc, call, pushes, returned, expected,
                   timed_out>>

ClearKeyframeRequest(c) ==
    /\ Idle(c)
    /\ IF encoder_handle # None
       THEN keyframe_requested' =
                 [keyframe_requested EXCEPT
                    ![encoder_handle] = ClearFlag(keyframe_requested[encoder_handle])]
       ELSE UNCHANGED keyframe_requested
    /\ requests' = 0
    /\ cleared' = encoder_handle
    /\ UNCHANGED <<outside_encoded, source, new_result, factories, live, dropped, factory_encoder,
                   encoder_handle, injected, pc, call, pushes, returned, expected,
                   timed_out>>

\* request_keyframe that calls the encoder's clear_keyframe_request
RequestKeyframeClearing(c) ==
    /\ Idle(c)
    /\ IF encoder_handle # None
       THEN /\ keyframe_requested' =
                 [keyframe_requested EXCEPT
                    ![encoder_handle] = ClearFlag(keyframe_requested[encoder_handle])]
            /\ requests' = IF requests < 2 THEN requests + 1 ELSE requests
       ELSE UNCHANGED <<keyframe_requested, requests>>
    /\ cleared' = None
    /\ UNCHANGED <<outside_encoded, source, new_result, factories, live, dropped, factory_encoder,
                   encoder_handle, injected, pc, call, pushes, returned, expected,
                   timed_out>>

RequestKeyframe(c) ==
    /\ Idle(c)
    /\ IF encoder_handle # None
       THEN /\ keyframe_requested' =
                 [keyframe_requested EXCEPT
                    ![encoder_handle] = RequestFlag(keyframe_requested[encoder_handle])]
            /\ requests' = IF requests < 2 THEN requests + 1 ELSE requests
       ELSE UNCHANGED <<keyframe_requested, requests>>
    /\ cleared' = None
    /\ UNCHANGED <<outside_encoded, source, new_result, factories, live, dropped, factory_encoder,
                   encoder_handle, injected, pc, call, pushes, returned, expected,
                   timed_out>>

Next ==
    \/ \E codec \in VideoCodecType, r \in Resolutions : New(codec, r[1], r[2])
    \/ \E c \in Clones : Clone(c)
    \/ \E c \in Clones : Drop(c)
    \/ CreateEncoder
    \/ TransportRequestKeyframe
    \/ \E c \in Clones : InitializeEncoder(c)
    \/ \E c \in Clones : Probe(c)
    \/ \E c \in Clones : Bind(c)
    \/ \E c \in Clones : ReturnTrue(c)
    \/ \E c \in Clones : ReturnFalse(c)
    \/ \E c \in Clones, frame \in Frames : PushFrameCall(c, frame)
    \/ \E c \in Clones : PushFrame(c)
    \/ \E c \in Clones : PushFrameReturn(c)
    \/ \E c \in Clones : IsKeyframeRequested(c)
    \/ \E c \in Clones : IsKeyframeRequestedReturn(c)
    \/ \E c \in Clones : ClearKeyframeRequest(c)
    \/ \E c \in Clones : RequestKeyframe(c)

Spec == Init /\ [][Next]_vars

\* ---- the video capturer: pure functions ----

\* new_video_capturer: the driver returns null for a device it cannot open
DeviceAvailable(unique_id) == unique_id = "cam0"

\* start_capture of the driver: 0 and Capturing from Opened when it succeeds;
\* a stopped session is not started again
start_capture(state, status) ==
    IF state = "Opened" /\ status = 0
    THEN [state |-> "Capturing", status |-> 0]
    ELSE IF state = "Capturing"
         THEN [state |-> state, status |-> status]
         ELSE [state |-> state, status |-> -1]

\* stop_capture of the driver: 0 and Stopped from Capturing when it succeeds
stop_capture(state, status) ==
    IF state = "Capturing" /\ status = 0
    THEN [state |-> "Stopped", status |-> 0]
    ELSE [state |-> state, status |-> status]

\* the n-th frame the driver hands to the sink
DriverFrame(n) == [rotation |-> 0, timestamp_us |-> n, video_frame_buffer |-> n]

\* the VideoFrame on_frame builds from the driver's frame
VideoFrame(frame) ==
    [rotation |-> frame.rotation,
     timestamp_us |-> frame.timestamp_us,
     buffer |-> frame.video_frame_buffer]

\* a channel with room for one frame only
send_bounded(channel, item) ==
    IF channel.closed \/ Len(channel.queue) >= 1
    THEN [channel |-> channel, result |-> "Err"]
    ELSE [channel |-> [channel EXCEPT !.queue = Append(@, item)], result |-> "Ok"]

\* frame_tx.send on the unbounded channel: Err once the receiver is closed
send(channel, item) ==
    IF channel.closed
    THEN [channel |-> channel, result |-> "Err"]
    ELSE [channel |-> [channel EXCEPT !.queue = Append(@, item)], result |-> "Ok"]

\* on_frame that unwraps what send returned
OnFrameResultUnwrapped(result) == IF result = "Err" THEN "panic" ELSE "returned"

\* on_frame discards what send returned: let _ = self.frame_tx.send(..)
OnFrameResult(result) == "returned"

\* a receive that hands out the newest frame first
poll_recv_newest(channel) ==
    IF channel.queue # <<>>
    THEN [poll |-> "Ready",
          item |-> <<channel.queue[Len(channel.queue)]>>,
          channel |-> [channel EXCEPT !.queue = SubSeq(@, 1, Len(@) - 1)]]
    ELSE IF channel.closed \/ channel.sink = {}
         THEN [poll |-> "Closed", item |-> <<>>, channel |-> channel]
         ELSE [poll |-> "Pending", item |-> <<>>, channel |-> channel]

\* frame_rx.poll_recv: the oldest buffered frame, Pending when there is none,
\* the end of the stream when there is none and the channel is closed or its
\* sender is gone
poll_recv(channel) ==
    IF channel.queue # <<>>
    THEN [poll |-> "Ready",
          item |-> <<Head(channel.queue)>>,
          channel |-> [channel EXCEPT !.queue = Tail(@)]]
    ELSE IF channel.closed \/ channel.sink = {}
         THEN [poll |-> "Closed", item |-> <<>>, channel |-> channel]
         ELSE [poll |-> "Pending", item |-> <<>>, channel |-> channel]

Opened == capture_state # "Closed"

\* the driver lets go of the sink it had registered: on deregistration and
\* when another sink takes its place
DeregisterSink(channels, s) ==
    IF s = None THEN channels ELSE [channels EXCEPT ![s].sink = @ \ {"driver"}]

StreamOpen(s) == s \in 1..streams /\ ~frame_rx[s].closed

\* ---- the video capturer: operations ----

\* open_device that registers its callback before it looks at the capturer
OpenDeviceRegistering(unique_id) ==
    /\ ~Opened
    /\ streams < MaxStreams
    /\ capture_result' = [op |-> "open_device", ok |-> DeviceAvailable(unique_id)]
    /\ capture_state' = IF DeviceAvailable(unique_id) THEN "Opened" ELSE capture_state
    /\ streams' = streams + 1
    /\ frame_rx' = Append(frame_rx, NoChannel)
    /\ yielded' = Append(yielded, <<>>)
    /\ delivered' = Append(delivered, <<>>)
    /\ registered' = streams + 1
    /\ UNCHANGED <<outside_capture, polled, captured, on_frame_result>>

\* VideoCapturer::open_device: a capturer for the device, and the stream of
\* the callback it registers
OpenDevice(unique_id) ==
    /\ ~Opened
    /\ IF ~DeviceAvailable(unique_id)
       THEN /\ capture_result' = [op |-> "open_device", ok |-> FALSE]
            /\ UNCHANGED <<capture_state, registered, streams, frame_rx, yielded,
                           delivered>>
       ELSE /\ capture_result' = [op |-> "open_device", ok |-> TRUE]
            /\ capture_state' = "Opened"
            /\ streams' = streams + 1
            /\ frame_rx' = Append(frame_rx, NoChannel)
            /\ yielded' = Append(yielded, <<>>)
            /\ delivered' = Append(delivered, <<>>)
            /\ registered' = streams + 1
    /\ UNCHANGED <<outside_capture, polled, captured, on_frame_result>>

\* register_callback that builds the stream and never hands its sink to the driver
RegisterCallbackUnregistered ==
    /\ Opened
    /\ streams < MaxStreams
    /\ streams' = streams + 1
    /\ frame_rx' = Append(frame_rx, [NoChannel EXCEPT !.sink = {"stream"}])
    /\ yielded' = Append(yielded, <<>>)
    /\ delivered' = Append(delivered, <<>>)
    /\ UNCHANGED <<outside_capture, capture_state, registered, polled, captured,
                   on_frame_result, capture_result>>

\* register_callback whose stream keeps the receiver and not the sink
RegisterCallbackSinkless ==
    /\ Opened
    /\ streams < MaxStreams
    /\ streams' = streams + 1
    /\ frame_rx' = Append(DeregisterSink(frame_rx, registered),
                          [NoChannel EXCEPT !.sink = {"driver"}])
    /\ yielded' = Append(yielded, <<>>)
    /\ delivered' = Append(delivered, <<>>)
    /\ registered' = streams + 1
    /\ UNCHANGED <<outside_capture, capture_state, polled, captured, on_frame_result,
                   capture_result>>

\* VideoCapturer::register_callback called once more on the open capturer
RegisterCallback ==
    /\ Opened
    /\ streams < MaxStreams
    /\ streams' = streams + 1
    /\ frame_rx' = Append(DeregisterSink(frame_rx, registered), NoChannel)
    /\ yielded' = Append(yielded, <<>>)
    /\ delivered' = Append(delivered, <<>>)
    /\ registered' = streams + 1
    /\ UNCHANGED <<outside_capture, capture_state, polled, captured, on_frame_result,
                   capture_result>>

\* VideoCapturer::unregister_callback
UnregisterCallback ==
    /\ Opened
    /\ registered' = None
    /\ frame_rx' = DeregisterSink(frame_rx, registered)
    /\ UNCHANGED <<outside_capture, capture_state, streams, polled, yielded,
                   delivered, captured, on_frame_result, capture_result>>

\* VideoCapturer::start
Start(capability) ==
    /\ Opened
    /\ \E status \in Status :
        LET r == start_capture(capture_state, status) IN
        /\ capture_state' = r.state
        /\ capture_result' = [op |-> "start", ok |-> r.status = 0]
    /\ UNCHANGED <<outside_capture, registered, streams, frame_rx, polled, yielded,
                   delivered, captured, on_frame_result>>

\* stop that reports success without calling stop_capture
StopForgotten ==
    /\ Opened
    /\ capture_result' = [op |-> "stop", ok |-> TRUE]
    /\ UNCHANGED <<outside_capture, capture_state, registered, streams, frame_rx, polled,
                   yielded, delivered, captured, on_frame_result>>

\* stop that deregisters the callback in place of stopping the capture
StopUnregistering ==
    /\ Opened
    /\ registered' = None
    /\ frame_rx' = DeregisterSink(frame_rx, registered)
    /\ capture_result' = [op |-> "stop", ok |-> TRUE]
    /\ UNCHANGED <<outside_capture, capture_state, streams, polled, yielded,
                   delivered, captured, on_frame_result>>

\* VideoCapturer::stop
Stop ==
    /\ Opened
    /\ \E status \in Status :
        LET r == stop_capture(capture_state, status) IN
        /\ capture_state' = r.state
        /\ capture_result' = [op |-> "stop", ok |-> r.status = 0]
    /\ UNCHANGED <<outside_capture, registered, streams, frame_rx, polled, yielded,
                   delivered, captured, on_frame_result>>

\* the driver thread hands its next frame to the registered sink:
\* VideoCapturerTrackObserver::on_frame
OnFrame ==
    /\ capture_state = "Capturing"
    /\ registered # None
    /\ captured < MaxCaptured
    /\ captured' = captured + 1
    /\ LET frame == VideoFrame(DriverFrame(captured + 1))
           r == send(frame_rx[registered], frame)
       IN
        /\ delivered' = [delivered EXCEPT ![registered] = Append(@, frame)]
        /\ frame_rx' = [frame_rx EXCEPT ![registered] = r.channel]
        /\ on_frame_result' = [send |-> r.result, ended |-> OnFrameResult(r.result)]
    /\ UNCHANGED <<outside_capture, capture_state, registered, streams, polled, yielded,
                   capture_result>>

\* poll_next that takes a frame off the queue and hands out nothing
PollNextLosing(s) ==
    /\ StreamOpen(s)
    /\ LET r == poll_recv(frame_rx[s]) IN
        /\ frame_rx' = [frame_rx EXCEPT ![s] = r.channel]
        /\ polled' = [stream |-> s, poll |-> "Pending"]
    /\ UNCHANGED <<outside_capture, capture_state, registered, streams, yielded, delivered,
                   captured, on_frame_result, capture_result>>

\* NativeVideoCapturerStream::poll_next
PollNext(s) ==
    /\ StreamOpen(s)
    /\ LET r == poll_recv(frame_rx[s]) IN
        /\ frame_rx' = [frame_rx EXCEPT ![s] = r.channel]
        /\ yielded' = [yielded EXCEPT ![s] = @ \o r.item]
        /\ polled' = [stream |-> s, poll |-> r.poll]
    /\ UNCHANGED <<outside_capture, capture_state, registered, streams, delivered, captured,
                   on_frame_result, capture_result>>

\* drop of a NativeVideoCapturerStream: close(), then the receiver and the
\* frames it still buffers are freed
DropStream(s) ==
    /\ StreamOpen(s)
    /\ frame_rx' = [frame_rx EXCEPT ![s] = [queue |-> <<>>, closed |-> TRUE,
                                            sink |-> @.sink \ {"stream"}]]
    /\ UNCHANGED <<outside_capture, capture_state, registered, streams, polled, yielded,
                   delivered, captured, on_frame_result, capture_result>>

CaptureNext ==
    \/ \E unique_id \in Devices : OpenDevice(unique_id)
    \/ RegisterCallback
    \/ UnregisterCallback
    \/ \E capability \in Capabilities : Start(capability)
    \/ Stop
    \/ OnFrame
    \/ \E s \in Streams : PollNext(s)
    \/ \E s \in Streams : DropStream(s)

CaptureSpec == Init /\ [][CaptureNext]_vars

\* the consumer keeps polling a stream it has not dropped
CaptureLive == CaptureSpec /\ \A s \in Streams : WF_vars(PollNext(s))

\* ---- one frame from the producer to the encoder ----

FrameData == {<<>>, <<103>>}
RtpTimestamps == {0, 3000}
TimesMs == {0, 1}
FieldsAtBoundary ==
    {"data", "rtp_timestamp", "capture_time_ms", "ntp_time_ms", "is_keyframe",
     "width", "height"}

\* EncodedVideoFrame::new of video_source: ntp_time_ms starts as capture_time_ms
EncodedVideoFrameNew(data, rtp_timestamp, capture_time_ms, is_keyframe, width, height, codec) ==
    [data |-> data,
     rtp_timestamp |-> rtp_timestamp,
     capture_time_ms |-> capture_time_ms,
     ntp_time_ms |-> capture_time_ms,
     is_keyframe |-> is_keyframe,
     width |-> width,
     height |-> height,
     codec |-> codec]

\* EncodedVideoFrame::new of passthrough_video_source (PassthroughEncodedFrame)
PassthroughEncodedFrameNew(data, rtp_timestamp, capture_time_ms, is_keyframe, width, height) ==
    [data |-> data,
     rtp_timestamp |-> rtp_timestamp,
     capture_time_ms |-> capture_time_ms,
     ntp_time_ms |-> capture_time_ms,
     is_keyframe |-> is_keyframe,
     width |-> width,
     height |-> height]

\* the passthrough frame push_frame builds from the frame it was given
ConvertFrame(frame) ==
    PassthroughEncodedFrameNew(frame.data, frame.rtp_timestamp, frame.capture_time_ms,
                               frame.is_keyframe, frame.width, frame.height)

\* the arguments inject_frame passes to passthrough_encoder_inject_frame
InjectArguments(frame) ==
    [data |-> frame.data,
     rtp_timestamp |-> frame.rtp_timestamp,
     capture_time_ms |-> frame.capture_time_ms,
     ntp_time_ms |-> frame.ntp_time_ms,
     is_keyframe |-> frame.is_keyframe,
     width |-> frame.width,
     height |-> frame.height]

\* the producer builds a frame
FrameNew(data, rtp_timestamp, capture_time_ms, is_keyframe, width, height, codec) ==
    /\ encoded_frame = <<>>
    /\ encoded_frame' =
          <<EncodedVideoFrameNew(data, rtp_timestamp, capture_time_ms, is_keyframe,
                                 width, height, codec)>>
    /\ UNCHANGED <<outside_frame, boundary, push_result>>

\* the producer writes the public field ntp_time_ms of its frame
FrameSetNtp(ntp_time_ms) ==
    /\ encoded_frame # <<>>
    /\ push_result = <<>>
    /\ encoded_frame[1].ntp_time_ms # ntp_time_ms
    /\ encoded_frame' = <<[encoded_frame[1] EXCEPT !.ntp_time_ms = ntp_time_ms]>>
    /\ UNCHANGED <<outside_frame, boundary, push_result>>

\* push_frame of the frame on a source whose handle cell holds handle; code is
\* what the encoder returns if it is called
FramePush(handle, code) ==
    /\ encoded_frame # <<>>
    /\ push_result = <<>>
    /\ LET r == push_frame(handle, encoded_frame[1], code) IN
        /\ r.called \/ code = 0
        /\ boundary' = IF r.called
                       THEN <<InjectArguments(ConvertFrame(encoded_frame[1]))>>
                       ELSE <<>>
        /\ push_result' = <<[handle |-> handle, error |-> r.error, code |-> r.code]>>
    /\ UNCHANGED <<outside_frame, encoded_frame>>

FrameNext ==
    \/ \E data \in FrameData, rtp_timestamp \in RtpTimestamps,
          capture_time_ms \in TimesMs, is_keyframe \in BOOLEAN, r \in Resolutions,
          codec \in VideoCodecType :
            FrameNew(data, rtp_timestamp, capture_time_ms, is_keyframe, r[1], r[2], codec)
    \/ \E ntp_time_ms \in TimesMs : FrameSetNtp(ntp_time_ms)
    \/ \E handle \in {None} \cup Encoders, code \in Codes : FramePush(handle, code)

FrameSpec == Init /\ [][FrameNext]_vars

\* ---- the two discovery variants against the same factory ----

\* what the factory answers to the probes of one call: nothing before the
\* probe numbered first, encoder from then on
Responses(first, encoder) ==
    [k \in 1..DefaultAttempts |-> IF k >= first THEN encoder ELSE None]

\* initialize_encoder from its iteration i on: probe, bind and return true, or
\* sleep the thread and go round; false after the last iteration
RECURSIVE initialize_encoder(_, _, _)
initialize_encoder(responses, i, cell) ==
    IF i >= DefaultAttempts
    THEN [result |-> FALSE, handle |-> cell, probes |-> i, sleeps |-> i,
          wait |-> "std::thread::sleep"]
    ELSE LET encoder == get_encoder(responses[i + 1]) IN
         IF encoder # None
         THEN [result |-> TRUE, handle |-> encoder, probes |-> i + 1, sleeps |-> i,
               wait |-> "std::thread::sleep"]
         ELSE initialize_encoder(responses, i + 1, cell)

\* a cooperative variant that gives up one iteration early
RECURSIVE initialize_encoder_async_short(_, _, _)
initialize_encoder_async_short(responses, i, cell) ==
    IF i >= DefaultAttempts - 1
    THEN [result |-> FALSE, handle |-> cell, probes |-> i, sleeps |-> i,
          wait |-> "tokio::time::sleep"]
    ELSE LET encoder == get_encoder(responses[i + 1]) IN
         IF encoder # None
         THEN [result |-> TRUE, handle |-> encoder, probes |-> i + 1, sleeps |-> i,
               wait |-> "tokio::time::sleep"]
         ELSE initialize_encoder_async_short(responses, i + 1, cell)

\* initialize_encoder_async from its iteration i on: the same loop, awaiting
\* tokio's sleep between the probes
RECURSIVE initialize_encoder_async(_, _, _)
initialize_encoder_async(responses, i, cell) ==
    IF i >= DefaultAttempts
    THEN [result |-> FALSE, handle |-> cell, probes |-> i, sleeps |-> i,
          wait |-> "tokio::time::sleep"]
    ELSE LET encoder == get_encoder(responses[i + 1]) IN
         IF encoder # None
         THEN [result |-> TRUE, handle |-> encoder, probes |-> i + 1, sleeps |-> i,
               wait |-> "tokio::time::sleep"]
         ELSE initialize_encoder_async(responses, i + 1, cell)

\* both variants are run to their end on a source whose handle cell holds
\* cell, against a factory that first has an encoder at the probe numbered
\* first (never, when first is past the last probe)
Discover(first, encoder, cell) ==
    /\ discovery = <<>>
    /\ discovery' =
          <<[first |-> first,
             encoder |-> encoder,
             cell |-> cell,
             blocking |-> initialize_encoder(Responses(first, encoder), 0, cell),
             cooperative |-> initialize_encoder_async(Responses(first, encoder), 0, cell)]>>
    /\ UNCHANGED outside_discovery

DiscoveryNext ==
    \E first \in 1..(DefaultAttempts + 1), encoder \in Encoders,
       cell \in {None} \cup Encoders :
        Discover(first, encoder, cell)

DiscoverySpec == Init /\ [][DiscoveryNext]_vars

\* ---- the locks: one producer, one thread in initialize_encoder, the transport ----

Operations ==
    {"push_frame", "is_keyframe_requested", "clear_keyframe_request", "request_keyframe"}

\* what an operation returns when it finds no handle in the cell
WithoutHandle(op) ==
    CASE op = "push_frame" -> "NotInitialized"
      [] op = "is_keyframe_requested" -> "false"
      [] OTHER -> "unit"

\* the parts of lock_state, once the source is constructed
mutex_owner == lock_state[1].mutex_owner
mutex_value == lock_state[1].mutex_value
factory_last == lock_state[1].factory_last
internal_owner == lock_state[1].internal_owner
keyframe_flag == lock_state[1].keyframe_flag
producer_pc == lock_state[1].producer_pc
producer_op == lock_state[1].producer_op
producer_result == lock_state[1].producer_result
discoverer_pc == lock_state[1].discoverer_pc
discoverer_i == lock_state[1].discoverer_i
discoverer_encoder == lock_state[1].discoverer_encoder
transport_pc == lock_state[1].transport_pc
unseen == lock_state[1].unseen
checked == lock_state[1].checked

Constructed == lock_state # <<>>

\* EncodedVideoSource::new: the mutex is created free and holding None, no
\* encoder exists and every thread is outside its calls
SourceNew ==
    /\ lock_state = <<>>
    /\ lock_state' =
          <<[mutex_owner |-> "none",       \* the thread inside encoder_handle.lock()
             mutex_value |-> None,         \* the Option inside the mutex
             factory_last |-> None,        \* the factory's last encoder
             internal_owner |-> "none",    \* who is inside the encoder's own lock
             keyframe_flag |-> FALSE,      \* the encoder's keyframe-request flag
             producer_pc |-> "idle",       \* where the producer is inside its call
             producer_op |-> "none",       \* the operation it called last
             producer_result |-> "none",   \* what that operation returned
             discoverer_pc |-> "idle",     \* where the thread in initialize_encoder is
             discoverer_i |-> 0,           \* the iterations of its loop that are over
             discoverer_encoder |-> None,  \* the encoder its probe returned
             transport_pc |-> "idle",      \* the feedback thread: idle, setting, reading
             unseen |-> FALSE,             \* the flag was set and no check has returned
                                           \* true since
             checked |-> FALSE]>>          \* a check returned true and the producer has
                                           \* not cleared since
    /\ UNCHANGED outside_lock

\* the transport creates the encoder
TransportCreate ==
    /\ Constructed
    /\ factory_last = None
    /\ lock_state' = <<[lock_state[1] EXCEPT !.factory_last = 1]>>
    /\ UNCHANGED outside_lock

\* the transport's feedback path enters the encoder to set or to read the
\* flag; it has the encoder only, never the source's mutex
TransportEnter(access) ==
    /\ Constructed
    /\ factory_last # None
    /\ transport_pc = "idle"
    /\ internal_owner = "none"
    /\ lock_state' =
          <<[lock_state[1] EXCEPT
                !.internal_owner = "transport",
                !.transport_pc = access,
                !.keyframe_flag = IF access = "set" THEN RequestFlag(@) ELSE @,
                !.unseen = IF access = "set" THEN TRUE ELSE @]>>
    /\ UNCHANGED outside_lock

TransportLeave ==
    /\ Constructed
    /\ transport_pc # "idle"
    /\ lock_state' = <<[lock_state[1] EXCEPT !.transport_pc = "idle",
                                             !.internal_owner = "none"]>>
    /\ UNCHANGED outside_lock

\* the producer calls push_frame or one of the keyframe operations
ProducerCall(op) ==
    /\ Constructed
    /\ producer_pc = "idle"
    /\ lock_state' = <<[lock_state[1] EXCEPT !.producer_pc = "lock",
                                             !.producer_op = op,
                                             !.producer_result = "none"]>>
    /\ UNCHANGED outside_lock

\* an operation that goes on without taking the mutex
ProducerLockSkipped ==
    /\ Constructed
    /\ producer_pc = "lock"
    /\ lock_state' = <<[lock_state[1] EXCEPT !.producer_pc = "locked"]>>
    /\ UNCHANGED outside_lock

\* self.encoder_handle.lock().unwrap(): the first statement of each operation
ProducerLock ==
    /\ Constructed
    /\ producer_pc = "lock"
    /\ mutex_owner = "none"
    /\ lock_state' = <<[lock_state[1] EXCEPT !.mutex_owner = "producer",
                                             !.producer_pc = "locked"]>>
    /\ UNCHANGED outside_lock

\* if let Some(ref encoder) = *encoder_handle: on to the encoder, or the else branch
ProducerMatch ==
    /\ Constructed
    /\ producer_pc = "locked"
    /\ lock_state' =
          IF mutex_value = None
          THEN <<[lock_state[1] EXCEPT !.producer_result = WithoutHandle(producer_op),
                                       !.producer_pc = "unlock"]>>
          ELSE <<[lock_state[1] EXCEPT !.producer_pc = "encoder"]>>
    /\ UNCHANGED outside_lock

\* the call on the handle, made with the mutex held: inject_frame,
\* is_keyframe_requested, clear_keyframe_request or request_keyframe enters
\* the encoder
ProducerEncoderEnter ==
    /\ Constructed
    /\ producer_pc = "encoder"
    /\ internal_owner = "none"
    /\ lock_state' =
          <<[lock_state[1] EXCEPT
                !.internal_owner = "producer",
                !.producer_pc = "in_encoder",
                !.keyframe_flag =
                    CASE producer_op = "request_keyframe" -> RequestFlag(@)
                      [] producer_op = "clear_keyframe_request" -> ClearFlag(@)
                      [] OTHER -> @,
                !.producer_result =
                    CASE producer_op = "push_frame" -> "Ok"
                      [] producer_op = "is_keyframe_requested" ->
                            IF keyframe_flag THEN "true" ELSE "false"
                      [] OTHER -> "unit",
                !.unseen =
                    CASE producer_op = "request_keyframe" -> TRUE
                      [] producer_op = "clear_keyframe_request" -> FALSE
                      [] producer_op = "is_keyframe_requested" /\ keyframe_flag -> FALSE
                      [] OTHER -> @,
                !.checked =
                    CASE producer_op = "clear_keyframe_request" -> FALSE
                      [] producer_op = "is_keyframe_requested" /\ keyframe_flag -> TRUE
                      [] OTHER -> @]>>
    /\ UNCHANGED outside_lock

\* the call on the handle returns
ProducerEncoderLeave ==
    /\ Constructed
    /\ producer_pc = "in_encoder"
    /\ lock_state' = <<[lock_state[1] EXCEPT !.producer_pc = "unlock",
                                             !.internal_owner = "none"]>>
    /\ UNCHANGED outside_lock

\* the guard goes out of scope at the end of the operation
ProducerUnlock ==
    /\ Constructed
    /\ producer_pc = "unlock"
    /\ lock_state' = <<[lock_state[1] EXCEPT !.producer_pc = "idle",
                                             !.mutex_owner = "none"]>>
    /\ UNCHANGED outside_lock

\* a thread calls initialize_encoder or initialize_encoder_async
DiscovererCall ==
    /\ Constructed
    /\ discoverer_pc = "idle"
    /\ lock_state' = <<[lock_state[1] EXCEPT !.discoverer_pc = "probe",
                                             !.discoverer_i = 0,
                                             !.discoverer_encoder = None]>>
    /\ UNCHANGED outside_lock

\* a probe that takes the mutex before it goes to sleep
DiscovererProbeLocking ==
    /\ Constructed
    /\ discoverer_pc = "probe"
    /\ LET encoder == get_encoder(factory_last) IN
        /\ encoder = None => mutex_owner = "none"
        /\ lock_state' =
              <<[lock_state[1] EXCEPT
                    !.discoverer_encoder = encoder,
                    !.discoverer_pc = IF encoder # None THEN "lock" ELSE "sleep",
                    !.mutex_owner = IF encoder # None THEN @ ELSE "discoverer"]>>
    /\ UNCHANGED outside_lock

\* self.encoder_factory.get_encoder() at the head of an iteration
DiscovererProbe ==
    /\ Constructed
    /\ discoverer_pc = "probe"
    /\ LET encoder == get_encoder(factory_last) IN
        lock_state' =
            <<[lock_state[1] EXCEPT
                  !.discoverer_encoder = encoder,
                  !.discoverer_pc = IF encoder # None THEN "lock" ELSE "sleep"]>>
    /\ UNCHANGED outside_lock

\* the sleep of 100 ms is over: the next iteration, or return false after the last
DiscovererWake ==
    /\ Constructed
    /\ discoverer_pc = "sleep"
    /\ lock_state' =
          <<[lock_state[1] EXCEPT
                !.discoverer_i = @ + 1,
                !.discoverer_pc = IF LoopDone(discoverer_i + 1) THEN "idle" ELSE "probe"]>>
    /\ UNCHANGED outside_lock

\* *self.encoder_handle.lock().unwrap() = Some(encoder): the lock is taken
DiscovererLock ==
    /\ Constructed
    /\ discoverer_pc = "lock"
    /\ mutex_owner = "none"
    /\ lock_state' = <<[lock_state[1] EXCEPT !.mutex_owner = "discoverer",
                                             !.discoverer_pc = "bind"]>>
    /\ UNCHANGED outside_lock

\* the store, the end of the statement drops the guard, and return true
DiscovererBind ==
    /\ Constructed
    /\ discoverer_pc = "bind"
    /\ lock_state' = <<[lock_state[1] EXCEPT !.mutex_value = discoverer_encoder,
                                             !.mutex_owner = "none",
                                             !.discoverer_pc = "idle"]>>
    /\ UNCHANGED outside_lock

LockNext ==
    \/ SourceNew
    \/ TransportCreate
    \/ \E access \in {"set", "read"} : TransportEnter(access)
    \/ TransportLeave
    \/ \E op \in Operations : ProducerCall(op)
    \/ ProducerLock
    \/ ProducerMatch
    \/ ProducerEncoderEnter
    \/ ProducerEncoderLeave
    \/ ProducerUnlock
    \/ DiscovererCall
    \/ DiscovererProbe
    \/ DiscovererWake
    \/ DiscovererLock
    \/ DiscovererBind

LockSpec == Init /\ [][LockNext]_vars

\* ---- the values of one source and the handle cells they point to ----

\* the parts of clone_state, once the source is constructed
handle_cells == clone_state[1].handle_cells
arc == clone_state[1].arc
created == clone_state[1].created
flags == clone_state[1].flags
bound_by == clone_state[1].bound_by
last == clone_state[1].last

Values == {c \in Clones : clone_state # <<>> /\ arc[c] # 0}

\* the content of the cell a value's encoder_handle points to
HandleOf(c) == handle_cells[arc[c]]

NoOperation == [op |-> "none", value |-> "none", handle |-> None, result |-> "none"]

\* EncodedVideoSource::new: Arc::new(Mutex::new(None)), held by the one value
CloneSourceNew ==
    /\ clone_state = <<>>
    /\ clone_state' =
          <<[handle_cells |-> <<None>>,  \* the Mutex<Option<..>> cells allocated
             arc |-> [c \in Clones |-> IF c = "source" THEN 1 ELSE 0],
                                         \* the cell each value's Arc points to, 0
                                         \* for a value that does not exist
             created |-> None,           \* the factory's last encoder
             flags |-> {},               \* the encoders whose keyframe flag is set
             bound_by |-> "none",        \* the value whose initialize_encoder bound last
             last |-> NoOperation]>>     \* the last operation: its value, the handle
                                         \* it found or stored, what it returned
    /\ UNCHANGED outside_clone

\* a clone that allocates a cell of its own and copies the content
CloneValueDeep(c, n) ==
    /\ c \in Values
    /\ n \in Clones \ Values
    /\ clone_state' =
          <<[clone_state[1] EXCEPT
                !.handle_cells = Append(@, HandleOf(c)),
                !.arc = [@ EXCEPT ![n] = Len(handle_cells) + 1],
                !.last = [op |-> "clone", value |-> n, handle |-> HandleOf(c),
                          result |-> "value"]]>>
    /\ UNCHANGED outside_clone

\* #[derive(Clone)]: Arc::clone of encoder_handle, the same cell
CloneValue(c, n) ==
    /\ c \in Values
    /\ n \in Clones \ Values
    /\ clone_state' =
          <<[clone_state[1] EXCEPT
                !.arc = [@ EXCEPT ![n] = arc[c]],
                !.last = [op |-> "clone", value |-> n, handle |-> HandleOf(c),
                          result |-> "value"]]>>
    /\ UNCHANGED outside_clone

\* the transport creates an encoder in the factory, which the values share
CloneCreateEncoder ==
    /\ clone_state # <<>>
    /\ created < MaxEncoders
    /\ clone_state' = <<[clone_state[1] EXCEPT !.created = @ + 1,
                                               !.last = NoOperation]>>
    /\ UNCHANGED outside_clone

\* the transport asks for a keyframe at the factory's last encoder
CloneTransportRequest ==
    /\ clone_state # <<>>
    /\ created # None
    /\ clone_state' = <<[clone_state[1] EXCEPT !.flags = @ \cup {created},
                                               !.last = NoOperation]>>
    /\ UNCHANGED outside_clone

\* initialize_encoder on a value, from call to return: true and the store
\* into the value's cell when the factory has an encoder, false after the
\* last probe when it has none
CloneInitialize(c) ==
    /\ c \in Values
    /\ LET encoder == get_encoder(created) IN
        clone_state' =
            IF encoder # None
            THEN <<[clone_state[1] EXCEPT
                       !.handle_cells = [@ EXCEPT ![arc[c]] = encoder],
                       !.bound_by = c,
                       !.last = [op |-> "initialize_encoder", value |-> c,
                                 handle |-> encoder, result |-> "true"]]>>
            ELSE <<[clone_state[1] EXCEPT
                       !.last = [op |-> "initialize_encoder", value |-> c,
                                 handle |-> HandleOf(c), result |-> "false"]]>>
    /\ UNCHANGED outside_clone

\* push_frame on a value: the handle in the value's cell gets the frame
ClonePushFrame(c, frame, code) ==
    /\ c \in Values
    /\ LET r == push_frame(HandleOf(c), frame, code) IN
        /\ r.called \/ code = 0
        /\ clone_state' =
              <<[clone_state[1] EXCEPT
                    !.last = [op |-> "push_frame", value |-> c, handle |-> HandleOf(c),
                              result |-> r.error]]>>
    /\ UNCHANGED outside_clone

\* is_keyframe_requested, clear_keyframe_request and request_keyframe on a value
CloneKeyframe(c, op) ==
    /\ c \in Values
    /\ clone_state' =
          <<[clone_state[1] EXCEPT
                !.flags =
                    CASE HandleOf(c) = None -> @
                      [] op = "request_keyframe" -> @ \cup {HandleOf(c)}
                      [] op = "clear_keyframe_request" -> @ \ {HandleOf(c)}
                      [] OTHER -> @,
                !.last = [op |-> op, value |-> c, handle |-> HandleOf(c),
                          result |-> IF op = "is_keyframe_requested"
                                     THEN IF HandleOf(c) # None /\ HandleOf(c) \in flags
                                          THEN "true" ELSE "false"
                                     ELSE "unit"]]>>
    /\ UNCHANGED outside_clone

CloneNext ==
    \/ CloneSourceNew
    \/ \E c \in Clones, n \in Clones : CloneValue(c, n)
    \/ CloneCreateEncoder
    \/ CloneTransportRequest
    \/ \E c \in Clones : CloneInitialize(c)
    \/ \E c \in Clones, frame \in Frames, code \in Codes : ClonePushFrame(c, frame, code)
    \/ \E c \in Clones, op \in Operations \ {"push_frame"} : CloneKeyframe(c, op)

CloneSpec == Init /\ [][CloneNext]_vars

\* ---- properties ----

\* C1 as the text has it: a push_frame made while no handle is bound, or made
\* after a value of the source was shut down (dropped), fails with
\* NotInitialized and injects nothing.
C1_PushFailsAfterShutdown ==
    \A c \in Clones :
        pc[c] = "push_ret" /\ (call[c].handle = None \/ call[c].after_drop) =>
            /\ call[c].error = "NotInitialized"
            /\ ~call[c].called

\* C1: a push_frame that finds no handle bound (no initialize_encoder has
\* succeeded yet) fails with NotInitialized, makes no inject call and leaves
\* no frame at the encoder.
C1_PushBeforeInitialize ==
    \A c \in Clones :
        pc[c] = "push_ret" /\ call[c].handle = None =>
            /\ call[c].error = "NotInitialized"
            /\ ~call[c].called
            /\ \A k \in DOMAIN injected : injected[k].id # call[c].id

C1_Witness ==
    \E c \in Clones :
        /\ pc[c] = "push_ret"
        /\ call[c].handle = None
        /\ call[c].frame.data # <<>>
        /\ call[c].error = "NotInitialized"

\* C2 as the text has it: a push_frame with empty data fails with InvalidData
\* whatever the state of the source, and makes no inject call.
C2_EmptyAlwaysInvalidData ==
    \A c \in Clones :
        pc[c] = "push_ret" /\ call[c].frame.data = <<>> =>
            /\ call[c].error = "InvalidData"
            /\ ~call[c].called

\* C2: a push_frame with empty data never reaches the inject call; it fails
\* with InvalidData when a handle is bound and with NotInitialized when none
\* is, because the handle is looked at first.  No frame at the encoder is empty.
C2_EmptyNeverInjected ==
    /\ \A c \in Clones :
          pc[c] = "push_ret" /\ call[c].frame.data = <<>> =>
              /\ ~call[c].called
              /\ \A k \in DOMAIN injected : injected[k].id # call[c].id
              /\ call[c].error =
                    IF call[c].handle = None THEN "NotInitialized" ELSE "InvalidData"
    /\ \A k \in DOMAIN injected : injected[k].frame.data # <<>>

C2_Witness ==
    \E c \in Clones :
        /\ pc[c] = "push_ret"
        /\ call[c].frame.data = <<>>
        /\ call[c].handle # None
        /\ call[c].error = "InvalidData"

\* C3 as the text has it: the frames that carried data and found a handle are
\* at the encoder exactly once each, in the order their push_frame calls were
\* made, also when the calls come from clones at the same time.
C3_InjectedInCallOrder ==
    /\ {injected[k].id : k \in DOMAIN injected} = expected
    /\ \A j, k \in DOMAIN injected : injected[j].id = injected[k].id => j = k
    /\ \A j, k \in DOMAIN injected : j < k => injected[j].id < injected[k].id

\* C3: the frames that carried data and found a handle are at the encoder
\* exactly once each, unchanged; each inject call puts its frame behind all
\* frames already there, and the frame of a push_frame that has returned is
\* already there, so a frame pushed after another push_frame returned comes
\* after it.  Calls that overlap are ordered by the handle lock only.
C3_InjectedOnceInLockOrder ==
    /\ [](/\ {injected[k].id : k \in DOMAIN injected} = expected
          /\ \A j, k \in DOMAIN injected : injected[j].id = injected[k].id => j = k
          /\ \A c \in Clones : pc[c] = "push" => call[c].id \notin returned
          /\ \A c \in Clones :
                pc[c] = "push_ret" /\ call[c].called =>
                    \E k \in DOMAIN injected :
                        injected[k] = [encoder |-> call[c].handle,
                                       frame |-> PassthroughEncodedFrame(call[c].frame),
                                       id |-> call[c].id])
    /\ [][\A c \in Clones :
             /\ pc[c] = "push" /\ pc'[c] = "push_ret" /\ call'[c].called =>
                   /\ Len(injected') = Len(injected) + 1
                   /\ SubSeq(injected', 1, Len(injected)) = injected
                   /\ injected'[Len(injected')].id = call[c].id
                   /\ returned \cap expected \subseteq
                         {injected[k].id : k \in DOMAIN injected}
             /\ pc[c] = "push_ret" /\ pc'[c] = "idle" /\ call[c].id \in expected =>
                   \E k \in DOMAIN injected : injected[k].id = call[c].id
         ]_vars

C3_Witness ==
    /\ Len(injected) = 2
    /\ returned = {1, 2}
    /\ injected[1].id = 2

\* C4: when the factory first yields an encoder on the k-th probe of an
\* initialize_encoder call, 1 <= k <= 50, the call has slept k - 1 times, binds
\* exactly the encoder that probe returned, returns true with the source
\* ready, and a later push_frame of a frame with data is injected and succeeds
\* exactly when the encoder accepts it.
C4_InitializeBindsProbedEncoder ==
    [][\A c \in Clones :
          /\ pc[c] = "probe" /\ pc'[c] = "bind" =>
                /\ call[c].probes + 1 \in 1..DefaultAttempts
                /\ call[c].sleeps = call[c].probes
                /\ call'[c].encoder = factory_encoder
                /\ call'[c].encoder # None
          /\ pc[c] = "bind" /\ pc'[c] = "ret_true" =>
                encoder_handle' = call[c].encoder
          /\ pc[c] = "ret_true" /\ pc'[c] = "idle" => Ready
          /\ pc[c] = "push" /\ pc'[c] = "push_ret" /\ Ready /\ call[c].frame.data # <<>> =>
                /\ call'[c].called
                /\ call'[c].error = IF call'[c].code = 0 THEN "Ok" ELSE "EncoderError"
                /\ Len(injected') = Len(injected) + 1
      ]_vars

C4_Witness ==
    \E c, d \in Clones :
        /\ pc[c] = "ret_true"
        /\ call[c].waited
        /\ encoder_handle = call[c].encoder
        /\ pc[d] = "push_ret"
        /\ call[d].handle = call[c].encoder
        /\ call[d].frame.is_keyframe
        /\ call[d].error = "Ok"

\* C5 as the text has it: an initialize_encoder call that returns false has
\* made at most 50 probes, and no more than the budget its caller chose.
C5_BudgetConfigurable ==
    \A c \in Clones :
        pc[c] = "ret_false" =>
            /\ call[c].probes <= DefaultAttempts
            /\ call[c].probes <= call[c].max_attempts

\* C5: an initialize_encoder call against a factory that never yields ends:
\* it is never stuck inside the loop, never runs more than 50 iterations, and
\* returns false after exactly 50 probes and 50 sleeps, whatever budget its
\* caller would have liked.
C5_ReturnsFalseAfterFiftyProbes ==
    \A c \in Clones :
        /\ pc[c] = "probe" =>
              /\ call[c].i < DefaultAttempts
              /\ call[c].probes = call[c].i
              /\ ENABLED Probe(c)
        /\ pc[c] = "ret_false" =>
              /\ call[c].probes = DefaultAttempts
              /\ call[c].sleeps = DefaultAttempts
              /\ ENABLED ReturnFalse(c)

C5_Witness ==
    \E c \in Clones :
        /\ pc[c] = "ret_false"
        /\ factory_encoder = None
        /\ call[c].sleeps = DefaultAttempts
        /\ call[c].max_attempts = DefaultAttempts

\* C6 as the text has it: a discovery whose caller chose a budget of one
\* attempt returns absence after exactly one probe.
C6_OneAttemptOneProbe ==
    \A c \in Clones :
        pc[c] = "ret_false" /\ call[c].max_attempts = 1 => call[c].probes = 1

\* C6: discovery has no budget parameter: after one failed probe the call is
\* still inside its loop, and a call whose caller would have liked one attempt
\* returns absence only after 50 probes.
C6_OneAttemptStillFiftyProbes ==
    \A c \in Clones :
        /\ call[c].probes = 1 => pc[c] = "probe"
        /\ pc[c] = "ret_false" /\ call[c].max_attempts = 1 =>
              call[c].probes = DefaultAttempts

C6_Witness ==
    \E c \in Clones :
        /\ pc[c] = "ret_false"
        /\ call[c].max_attempts = 1
        /\ call[c].probes = DefaultAttempts

\* C7: an initialize_encoder call that times out leaves the handle cell as it
\* found it, so after a timeout with no handle bound the source has no handle
\* (and push_frame fails with NotInitialized) until a later initialize_encoder
\* call succeeds, which the caller is free to make.
C7_TimeoutLeavesSourceUnbound ==
    /\ [](timed_out /\ (\A c \in Clones : pc[c] # "ret_true") =>
            /\ ~Ready
            /\ \A c \in Clones :
                  pc[c] = "push" => push_frame(encoder_handle, call[c].frame, 0).error
                                        = "NotInitialized")
    /\ [][\A c \in Clones :
             pc[c] = "ret_false" /\ pc'[c] = "idle" =>
                 /\ encoder_handle' = encoder_handle
                 /\ c \in live' /\ pc'[c] = "idle"
         ]_vars

C7_Witness ==
    \E c \in Clones :
        /\ timed_out
        /\ pc[c] = "ret_true"
        /\ call[c].encoder # None
        /\ encoder_handle = call[c].encoder

\* C8 as the text has it: once a handle is bound it stays the same for as long
\* as the source lives.
C8_HandleNeverChanges ==
    [][encoder_handle # None /\ live' # {} => encoder_handle' = encoder_handle]_vars

\* C8: once a handle is bound it is never cleared while the source lives, and
\* it changes only when a later initialize_encoder call succeeds, to the
\* encoder that call's probe returned.
C8_HandleChangesOnlyByInitialize ==
    [][encoder_handle # None /\ live' # {} /\ encoder_handle' # encoder_handle =>
          \E c \in Clones :
              /\ pc[c] = "bind"
              /\ pc'[c] = "ret_true"
              /\ call[c].encoder # None
              /\ encoder_handle' = call[c].encoder
      ]_vars

C8_Witness ==
    /\ encoder_handle = 2
    /\ Len(injected) > 0
    /\ injected[1].encoder = 1

\* C9: EncodedVideoSource::new with VP8, VP9 or AV1 and any width and height
\* returns nothing: no factory is created, no source and no handle exist.
\* A source that exists is an H264 source with one factory.
C9_UnsupportedCodecRejected ==
    /\ new_result.codec \in {"VP8", "VP9", "AV1"} =>
          /\ ~new_result.some
          /\ ~source.constructed
          /\ factories = 0
          /\ live = {}
          /\ encoder_handle = None
    /\ source.constructed => source.codec = "H264" /\ factories = 1

C9_Witness ==
    /\ new_result.codec \in {"VP8", "VP9", "AV1"}
    /\ ~new_result.some
    /\ factories = 0

\* C10: two request_keyframe calls in a row on a ready source leave what one
\* leaves: the second changes no flag, is_keyframe_requested then returns
\* true, and one clear_keyframe_request makes the flag false.
C10_RequestKeyframeIdempotent ==
    /\ [](requests >= 1 => Ready /\ keyframe_requested[encoder_handle])
    /\ [][\A c \in Clones :
             /\ RequestKeyframe(c) /\ requests >= 1 =>
                   keyframe_requested' = keyframe_requested
             /\ IsKeyframeRequested(c) /\ requests = 2 => call'[c].value
             /\ ClearKeyframeRequest(c) /\ requests = 2 =>
                   ~keyframe_requested'[encoder_handle]
         ]_vars

C10_Witness ==
    /\ requests = 2
    /\ Ready
    /\ keyframe_requested[encoder_handle]

\* C11 as the text has it: an is_keyframe_requested call made after a
\* clear_keyframe_request, with no request set in between, returns false.
C11_ClearThenIsFalse ==
    [][\A c \in Clones :
          cleared # None /\ IsKeyframeRequested(c) => ~call'[c].value
      ]_vars

\* C11: an is_keyframe_requested call made after a clear_keyframe_request
\* returns false when no request was set in between and the handle is still
\* bound to the encoder whose flag was cleared; an initialize_encoder on a
\* clone that binds another encoder in between makes the call read that
\* encoder's flag instead.
C11_ClearThenIsFalseOnSameEncoder ==
    [][\A c \in Clones :
          cleared # None /\ encoder_handle = cleared /\ IsKeyframeRequested(c) =>
              /\ ~call'[c].value
              /\ call'[c].handle = cleared
      ]_vars

C11_Witness ==
    \E c \in Clones :
        /\ live = {c}
        /\ pc[c] = "is_ret"
        /\ cleared # None
        /\ call[c].handle = cleared
        /\ ~call[c].value

\* C12 as the text has it: once a value of the source has been shut down
\* (dropped), the source holds no encoder any more.
C12_ShutdownReleasesHandle ==
    dropped # {} => encoder_handle = None

\* C12: the source has no shutdown; the handle is released only when the last
\* value of the source is dropped, and then no push_frame can be made at all.
\* Dropping a value while another lives leaves the handle as it is.
C12_LastDropReleasesHandle ==
    /\ [](live = {} /\ dropped # {} =>
            /\ encoder_handle = None
            /\ \A c \in Clones : pc[c] = "idle"
            /\ \A c \in Clones, frame \in Frames : ~ENABLED PushFrameCall(c, frame))
    /\ [][\A c \in live \ live' :
             Drop(c) /\ encoder_handle' = IF live' = {} THEN None ELSE encoder_handle
         ]_vars

C12_Witness ==
    /\ live = {}
    /\ dropped = Clones
    /\ Len(injected) > 0
    /\ encoder_handle = None

\* C13: a stop that returns true has deregistered the frame callback, so when
\* it returns the session has no registered callback, and from then on the
\* driver makes no frame delivery to a sink.
C13_StopDeregistersCallback ==
    [][/\ Stop /\ capture_result'.ok => registered' = None
       /\ capture_result = [op |-> "stop", ok |-> TRUE] =>
             \A s \in DOMAIN delivered : delivered'[s] = delivered[s]
      ]_vars

C15_YieldedPrefixOfDelivered ==
    \A s \in DOMAIN frame_rx :
        /\ Len(yielded[s]) <= Len(delivered[s])
        /\ SubSeq(delivered[s], 1, Len(yielded[s])) = yielded[s]
        /\ ~frame_rx[s].closed => yielded[s] \o frame_rx[s].queue = delivered[s]
        /\ \A j, k \in DOMAIN yielded[s] : yielded[s][j] = yielded[s][k] => j = k

C15_Witness ==
    \E s \in DOMAIN frame_rx :
        /\ Len(yielded[s]) = 2
        /\ Len(frame_rx[s].queue) = 1
        /\ polled = [stream |-> s, poll |-> "Ready"]

\* C16: under a consumer that keeps polling, every frame the driver delivered
\* to an open stream is eventually yielded by it: again and again the stream
\* (unless the consumer dropped it) has yielded exactly the frames delivered
\* so far, in their order, so after n deliveries and a stop it comes to have
\* yielded exactly those n frames.
C16_DeliveredEventuallyYielded ==
    \A s \in Streams :
        []<>(s \notin DOMAIN frame_rx \/ frame_rx[s].closed \/ yielded[s] = delivered[s])

C16_Witness ==
    /\ capture_state = "Stopped"
    /\ StreamOpen(1)
    /\ Len(delivered[1]) = 3
    /\ yielded[1] = delivered[1]
    /\ frame_rx[1].queue = <<>>

\* C17: the capture callback never waits for the consumer: while the session
\* is capturing with a sink registered the next on_frame can run whatever the
\* queue holds, it puts its frame at the end of an open stream's queue, and it
\* always returns without an error.
C17_OnFrameNeverBlocks ==
    /\ [](/\ on_frame_result.ended \in {"none", "returned"}
          /\ capture_state = "Capturing" /\ registered # None /\ captured < MaxCaptured =>
                ENABLED OnFrame)
    /\ [][OnFrame /\ ~frame_rx[registered].closed =>
             /\ on_frame_result' = [send |-> "Ok", ended |-> "returned"]
             /\ frame_rx'[registered].queue =
                   Append(frame_rx[registered].queue, delivered'[registered][Len(delivered'[registered])])
         ]_vars

C17_Witness ==
    \E s \in Streams :
        /\ StreamOpen(s)
        /\ Len(frame_rx[s].queue) = MaxCaptured
        /\ yielded[s] = <<>>
        /\ on_frame_result = [send |-> "Ok", ended |-> "returned"]

\* C18: once a stream is closed (which only its drop does), an on_frame for
\* it fails to send, returns all the same and queues nothing, and the frames
\* the stream still buffered at its drop are gone: it yields nothing more.
C18_ClosedStreamDropsFrames ==
    /\ [](\A s \in DOMAIN frame_rx : frame_rx[s].closed => frame_rx[s].queue = <<>>)
    /\ [][/\ OnFrame /\ frame_rx[registered].closed =>
                /\ frame_rx' = frame_rx
                /\ on_frame_result' = [send |-> "Err", ended |-> "returned"]
          /\ \A s \in DOMAIN frame_rx :
                frame_rx[s].closed \/ frame_rx'[s].closed =>
                    /\ yielded'[s] = yielded[s]
                    /\ frame_rx'[s].closed
         ]_vars

C18_Witness ==
    \E s \in DOMAIN frame_rx :
        /\ frame_rx[s].closed
        /\ registered = s
        /\ on_frame_result = [send |-> "Err", ended |-> "returned"]
        /\ Len(yielded[s]) = 1
        /\ Len(delivered[s]) = 3

\* C19: the session has one registration at most: registering again makes
\* the newest stream the only one the driver calls, and each frame goes to
\* the registered stream alone.
C19_LastRegisterWins ==
    /\ [](registered \in 0..streams)
    /\ [][/\ RegisterCallback => registered' = streams' /\ streams' = streams + 1
          /\ \A s \in DOMAIN frame_rx :
                delivered'[s] # delivered[s] \/ frame_rx'[s].queue # frame_rx[s].queue =>
                    \/ OnFrame /\ registered = s
                    \/ delivered'[s] = delivered[s] /\ (PollNext(s) \/ DropStream(s))
         ]_vars

C19_Witness ==
    /\ streams = 2
    /\ registered = 2
    /\ StreamOpen(1)
    /\ Len(delivered[1]) = 1
    /\ Len(delivered[2]) = 2

C21_PreReadyOperationsFail ==
    [][\A c \in Clones :
          /\ ~Ready
          /\ IsKeyframeRequested(c) \/ ClearKeyframeRequest(c) \/ RequestKeyframe(c)
          => call'[c].error \in {"NotInitialized", "NoEncoder"}
      ]_vars

\* C22: open_device on a device the driver cannot open returns None and
\* changes nothing: the session stays Closed, no callback is registered and
\* no stream is created; while the session is Closed none of these exist.
C22_UnavailableDeviceNoSideEffect ==
    /\ [](capture_state = "Closed" =>
            registered = None /\ streams = 0 /\ frame_rx = <<>> /\ delivered = <<>>)
    /\ [][\A unique_id \in Devices :
             ~DeviceAvailable(unique_id) /\ OpenDevice(unique_id) =>
                 /\ capture_result' = [op |-> "open_device", ok |-> FALSE]
                 /\ capture_state' = "Closed"
                 /\ registered' = None
                 /\ streams' = 0
                 /\ frame_rx' = <<>>
         ]_vars

C22_Witness ==
    /\ capture_result = [op |-> "open_device", ok |-> FALSE]
    /\ capture_state = "Closed"
    /\ registered = None
    /\ streams = 0

\* C26: push_frame and the keyframe operations act on the encoder in the
\* handle cell and never on what the factory holds: when the factory has
\* replaced its encoder, a push is injected into the bound encoder and a
\* flag call reads or writes the bound encoder's flag only; a probe of
\* initialize_encoder takes the factory's current encoder, and creating an
\* encoder leaves the handle as it is.  The step of push_frame is the one
\* that leaves the position "push", a successful probe the one from "probe"
\* to "bind".
C26_BoundSourceKeepsItsEncoder ==
    [][/\ \A c \in Clones :
            /\ pc[c] = "push" /\ pc'[c] = "push_ret" =>
                  /\ call'[c].called =>
                        injected'[Len(injected')].encoder = encoder_handle
                  /\ encoder_handle' = encoder_handle
            /\ keyframe_requested' # keyframe_requested /\ Idle(c) /\ Ready
                  /\ (ClearKeyframeRequest(c) \/ RequestKeyframe(c)) =>
                  \A e \in Encoders \ {encoder_handle} :
                      keyframe_requested'[e] = keyframe_requested[e]
            /\ pc'[c] = "is_ret" /\ Idle(c) /\ Ready /\ IsKeyframeRequested(c) =>
                  /\ call'[c].handle = encoder_handle
                  /\ call'[c].value = keyframe_requested[encoder_handle]
            /\ pc[c] = "probe" /\ pc'[c] = "bind" =>
                  call'[c].encoder = factory_encoder
       /\ factory_encoder' # factory_encoder => encoder_handle' = encoder_handle
      ]_vars

C26_Witness ==
    \E c \in Clones :
        /\ pc[c] = "is_ret"
        /\ cleared = 1
        /\ encoder_handle = 1
        /\ call[c].handle = 1
        /\ ~call[c].value
        /\ factory_encoder = 2
        /\ keyframe_requested[2]
        /\ Len(injected) > 0

\* C27: a push_frame call reaches the injection boundary once at most; when
\* the encoder returns a code other than 0 the call fails with EncoderError
\* and that code after its one injection, and the handle and the keyframe
\* flags are what they were, so the source is still ready.
C27_FailedInjectionNotRetried ==
    /\ [](\A id \in 1..MaxFrames :
            Cardinality({j \in DOMAIN injected : injected[j].id = id}) <= 1)
    /\ [][\A c \in Clones :
             pc[c] = "push" /\ pc'[c] # "push" /\ PushFrame(c) =>
                 /\ Len(injected') <= Len(injected) + 1
                 /\ encoder_handle' = encoder_handle
                 /\ keyframe_requested' = keyframe_requested
                 /\ call'[c].code # 0 <=> call'[c].error = "EncoderError"
                 /\ call'[c].error = "EncoderError" =>
                       /\ Len(injected') = Len(injected) + 1
                       /\ Ready'
         ]_vars

C27_Witness ==
    \E c \in Clones :
        /\ pc[c] = "push_ret"
        /\ call[c].error = "EncoderError"
        /\ call[c].code = -1
        /\ encoder_handle = call[c].handle
        /\ Ready
        /\ keyframe_requested[encoder_handle]
        /\ Len(injected) = 1

\* C28: run against the same factory responses, initialize_encoder and
\* initialize_encoder_async make the same number of probes and of sleeps,
\* return the same result and leave the same handle bound; they differ in
\* the sleep they use between probes.
C28_DiscoveryVariantsEquivalent ==
    discovery # <<>> =>
        LET b == discovery[1].blocking
            a == discovery[1].cooperative
        IN
        /\ a.result = b.result
        /\ a.handle = b.handle
        /\ a.probes = b.probes
        /\ a.sleeps = b.sleeps
        /\ a.wait # b.wait
        /\ b.result <=> discovery[1].first <= DefaultAttempts
        /\ b.result => b.handle = discovery[1].encoder /\ b.probes = discovery[1].first
        /\ ~b.result => b.handle = discovery[1].cell /\ b.probes = DefaultAttempts

C28_Witness ==
    /\ discovery # <<>>
    /\ discovery[1].first = DefaultAttempts
    /\ discovery[1].cooperative.result
    /\ discovery[1].cooperative.probes = DefaultAttempts
    /\ discovery[1].cell = 1
    /\ discovery[1].blocking.handle = 2

\* C29: the frame that reaches passthrough_encoder_inject_frame has the data,
\* rtp_timestamp, capture_time_ms, ntp_time_ms, is_keyframe, width and height
\* of the frame given to push_frame.
C29_BoundaryFrameEqualsPushed ==
    boundary # <<>> =>
        \A f \in FieldsAtBoundary : boundary[1][f] = encoded_frame[1][f]

\* C30: push_frame on a source with a bound handle never rejects a frame that
\* carries data because of the frame's codec: whatever the codec field says
\* the frame reaches the encoder and the call returns what the encoder
\* returned.
C30_NoCodecCheckAtPush ==
    /\ push_result # <<>>
    /\ push_result[1].handle # None
    /\ encoded_frame[1].data # <<>>
    => /\ boundary # <<>>
       /\ boundary[1].data = encoded_frame[1].data
       /\ push_result[1].error = IF push_result[1].code = 0 THEN "Ok" ELSE "EncoderError"

C30_Witness ==
    /\ push_result # <<>>
    /\ encoded_frame[1].codec = "VP8"
    /\ boundary # <<>>
    /\ push_result[1].error = "Ok"

\* C23: under the check-then-clear protocol no set of the flag is cleared
\* unobserved: when the producer clears after an is_keyframe_requested that
\* returned true, every set made so far, by the transport or by
\* request_keyframe, has been seen by an is_keyframe_requested that returned
\* true.
C23_NoRequestClearedUnobserved ==
    [][/\ Constructed
       /\ producer_op = "clear_keyframe_request"
       /\ checked
       /\ ProducerEncoderEnter
       => ~unseen
      ]_vars

\* C24 as the text has it: whoever reads or writes the handle or the flag,
\* the producer, the thread in initialize_encoder or the transport, is inside
\* the one mutex of the source while it does.
C24_OneCriticalSection ==
    Constructed =>
        /\ producer_pc \in {"locked", "encoder", "in_encoder", "unlock"} =>
              mutex_owner = "producer"
        /\ discoverer_pc = "bind" => mutex_owner = "discoverer"
        /\ transport_pc # "idle" => mutex_owner = "transport"

\* C24: the handle cell is read and written only inside the source's mutex,
\* by the producer and by initialize_encoder; the flag is read and written
\* only inside the encoder's own lock, which the producer enters while it
\* holds the mutex and the transport enters without it.  No two accesses to
\* the handle overlap and no two accesses to the flag overlap.
C24_TwoNestedLocks ==
    Constructed =>
        /\ producer_pc \in {"locked", "encoder", "in_encoder", "unlock"} =>
              mutex_owner = "producer"
        /\ discoverer_pc = "bind" => mutex_owner = "discoverer"
        /\ producer_pc = "in_encoder" => internal_owner = "producer"
        /\ transport_pc # "idle" =>
              internal_owner = "transport" /\ mutex_owner # "transport"
        /\ ~(producer_pc = "in_encoder" /\ transport_pc # "idle")
        /\ ~(producer_pc \in {"locked", "encoder", "in_encoder", "unlock"}
                /\ discoverer_pc = "bind")

C24_Witness ==
    /\ Constructed
    /\ transport_pc = "set"
    /\ mutex_owner = "producer"
    /\ producer_pc = "encoder"
    /\ producer_op = "clear_keyframe_request"

\* C25: the thread in initialize_encoder never holds the mutex while it
\* probes or sleeps: a producer waiting for the mutex while that thread
\* sleeps can take it at once, and an operation that finds no handle in the
\* cell returns NotInitialized, false or nothing without waiting.
C25_NoLockHeldWhileSleeping ==
    /\ [](Constructed /\ discoverer_pc \in {"probe", "sleep"} =>
             mutex_owner # "discoverer")
    /\ [](Constructed /\ discoverer_pc = "sleep" /\ producer_pc = "lock" =>
             ENABLED ProducerLock)
    /\ [][Constructed /\ producer_pc = "locked" /\ mutex_value = None /\ ProducerMatch =>
             /\ producer_pc' = "unlock"
             /\ producer_result' =
                   CASE producer_op = "push_frame" -> "NotInitialized"
                     [] producer_op = "is_keyframe_requested" -> "false"
                     [] OTHER -> "unit"
         ]_vars

C25_Witness ==
    /\ Constructed
    /\ discoverer_pc = "sleep"
    /\ discoverer_i = 2
    /\ mutex_owner = "producer"
    /\ producer_pc = "unlock"
    /\ producer_op = "push_frame"
    /\ producer_result = "NotInitialized"

\* C33: a stream that has not been dropped holds the sink whose observer
\* owns the sender of its channel, whether or not the driver still has that
\* sink registered, so no poll_next has ever returned the end of the stream:
\* every poll returned a frame or Pending, after stop and after deregistration
\* too, and a loop that polls until the end of the stream does not leave.
C33_StreamNeverEnds ==
    /\ \A s \in DOMAIN frame_rx : ~frame_rx[s].closed => "stream" \in frame_rx[s].sink
    /\ \A s \in DOMAIN frame_rx : ("driver" \in frame_rx[s].sink) = (registered = s)
    /\ polled.poll \in {"none", "Ready", "Pending"}

C33_Witness ==
    /\ capture_state = "Stopped"
    /\ registered = None
    /\ StreamOpen(1)
    /\ frame_rx[1].sink = {"stream"}
    /\ delivered[1] # <<>>
    /\ yielded[1] = delivered[1]
    /\ polled = [stream |-> 1, poll |-> "Pending"]

\* C32: readiness is monotonic: a bound handle cell is emptied by no step
\* while a value of the source lives (only the drop of the last value
\* releases it), an initialize_encoder that returns false leaves the cell as
\* it is, and a push_frame made on the bound cell does not fail with
\* NotInitialized.
C32_ReadinessMonotonic ==
    [][/\ Ready /\ live' # {} => Ready'
       /\ \A c \in Clones :
            /\ pc[c] = "ret_false" /\ pc'[c] = "idle" =>
                  encoder_handle' = encoder_handle
            /\ Ready /\ pc[c] = "push" /\ pc'[c] = "push_ret" =>
                  /\ call'[c].error # "NotInitialized"
                  /\ Ready'
      ]_vars

C32_Witness ==
    \E c \in Clones, d \in Clones :
        /\ pc[c] = "ret_false"
        /\ pc[d] = "push_ret"
        /\ call[d].error = "EncoderError"
        /\ Ready
        /\ keyframe_requested[encoder_handle]

\* C31: the values of a source, the one made by new and its clones, point to
\* one handle cell: their readiness is the same in every state; when
\* initialize_encoder has returned true on one of them, every one finds the
\* encoder it bound; and the handle a push_frame or a keyframe operation
\* found through one value is the handle every other value holds.
C31_ClonesShareHandleCell ==
    clone_state # <<>> =>
        /\ \A c \in Values, d \in Values :
              /\ arc[c] = arc[d]
              /\ (HandleOf(c) # None) = (HandleOf(d) # None)
        /\ last.op = "initialize_encoder" /\ last.result = "true" =>
              \A d \in Values : HandleOf(d) = last.handle
        /\ last.op \in Operations =>
              \A d \in Values : HandleOf(d) = last.handle

C31_Witness ==
    /\ clone_state # <<>>
    /\ Values = Clones
    /\ bound_by = "source"
    /\ last = [op |-> "push_frame", value |-> "track", handle |-> 1, result |-> "Ok"]
====
